---- MODULE Spec2Model ----
(***************************************************************************)
(* DarkNet (pytorch/models/darknet.py): the module tree DarkNet.__init__   *)
(* assembles, the initialisation pass, the shape arithmetic of forward    *)
(* and the variant factory get_darknet.                                   *)
(*                                                                         *)
(* A module is a record with a type, its hyper-parameters and the ordered  *)
(* list of its named children (nn.Module._modules).  A tensor is modelled  *)
(* by its shape (n, c, h, w); an exception raised by a layer is the shape  *)
(* with ok = FALSE.  Weight values are not modelled: the initialisation    *)
(* pass is the log of which initialiser it applies to which module.        *)
(***************************************************************************)
EXTENDS Integers, Sequences, FiniteSets, TLC

VARIABLES pc, call, net, err, x, y

vars == <<pc, call, net, err, x, y>>

(* ------------------------------ bounds -------------------------------- *)

\* Longest channel table (number of stages) handed to DarkNet directly.
MaxStages == 2

\* Longest stage (number of units) in a table handed to DarkNet directly.
MaxUnits == 2

\* Output channel counts used in tables handed to DarkNet directly.
ChanSet == {1, 2}

\* avg_pool_size and num_classes values handed to DarkNet directly.
AvgPoolSet == {2}

DirectNumClasses == {10}

\* Version names handed to get_darknet.
VersionNames == {"ref", "tiny", "19", "bogus_version", "REF"}

\* in_channels defaults to 3 and num_classes to 1000.
DefaultInChannels == 3
DefaultNumClasses == 1000

InChannelsSet == {DefaultInChannels, 1}
NumClassesSet == {DefaultNumClasses, 10}

\* Side of the square input _test feeds to every variant.
TestSize == 224

\* Heights and widths of the inputs handed to forward.
InSizes == {1, 32, 192, 223, TestSize, 239, 240, 255, 256, 448}

\* Batch sizes of the inputs handed to forward.
BatchSet == {1, 2}

(* --------------------------- leaf modules ----------------------------- *)

Named(name, module) == [name |-> name, module |-> module]

\* nn.Conv2d: stride 1 and dilation 1 throughout this file.
Conv2d(in_channels, out_channels, kernel_size, padding, bias) ==
    [type |-> "Conv2d", in_channels |-> in_channels, out_channels |-> out_channels,
     kernel_size |-> kernel_size, padding |-> padding, bias |-> bias,
     children |-> <<>>]

BatchNorm2d(num_features) ==
    [type |-> "BatchNorm2d", num_features |-> num_features, children |-> <<>>]

LeakyReLU ==
    [type |-> "LeakyReLU", slope_tenths |-> 1, inplace |-> TRUE, children |-> <<>>]

MaxPool2d(kernel_size, stride) ==
    [type |-> "MaxPool2d", kernel_size |-> kernel_size, stride |-> stride,
     children |-> <<>>]

AvgPool2d(kernel_size, stride) ==
    [type |-> "AvgPool2d", kernel_size |-> kernel_size, stride |-> stride,
     children |-> <<>>]

Sequential(children) == [type |-> "Sequential", children |-> children]

(* ------------------------------ DarkConv ------------------------------ *)

\* A DarkConv whose convolution keeps the default bias.
DarkConv_mut_bias(in_channels, out_channels, kernel_size, padding) ==
    [type |-> "DarkConv",
     children |-> << Named("conv", Conv2d(in_channels, out_channels, kernel_size,
                                          padding, TRUE)),
                     Named("bn", BatchNorm2d(out_channels)),
                     Named("activ", LeakyReLU) >>]

\* DarkConv.__init__: conv (bias=False), bn, activ.
DarkConv(in_channels, out_channels, kernel_size, padding) ==
    [type |-> "DarkConv",
     children |-> << Named("conv", Conv2d(in_channels, out_channels, kernel_size,
                                          padding, FALSE)),
                     Named("bn", BatchNorm2d(out_channels)),
                     Named("activ", LeakyReLU) >>]

dark_conv1x1(in_channels, out_channels) == DarkConv(in_channels, out_channels, 1, 0)

dark_conv3x3(in_channels, out_channels) == DarkConv(in_channels, out_channels, 3, 1)

dark_convYxY(in_channels, out_channels, pointwise) ==
    IF pointwise THEN dark_conv1x1(in_channels, out_channels)
                 ELSE dark_conv3x3(in_channels, out_channels)

(* -------------------------- DarkNet.__init__ -------------------------- *)

\* Python's ^ on two booleans.
Xor(a, b) == a # b

\* Variants of the rule: a one-unit stage taken as pointwise; the parity
\* taken of the 0-based index; odd_pointwise left out.
UnitIsPointwise_mut_len1(n, j, odd_pointwise) ==
    (n = 1) \/ ~Xor((j + 1) % 2 = 1, odd_pointwise)

UnitIsPointwise_mut_parity(n, j, odd_pointwise) ==
    (n > 1) /\ ~Xor(j % 2 = 1, odd_pointwise)

UnitIsPointwise_mut_noxor(n, j, odd_pointwise) ==
    (n > 1) /\ ~((j + 1) % 2 = 1)

\* The pointwise argument of unit j (0-based, as enumerate counts) in a
\* stage of n units.
UnitIsPointwise(n, j, odd_pointwise) ==
    (n > 1) /\ ~Xor((j + 1) % 2 = 1, odd_pointwise)

\* Variant: in_channels never updated.
NextInChannels_mut_keep(in_channels, out_channels) == in_channels

\* in_channels = out_channels, after each unit.
NextInChannels(in_channels, out_channels) == out_channels

\* Variant: a pool after every stage.
StageHasPool_mut_always(i, nstages) == TRUE

\* Stage i (0-based) of nstages gets a trailing max-pool.
StageHasPool(i, nstages) == i # nstages - 1

\* The inner loop over a stage's channel list, from unit j (0-based) on.
\* st = [in_channels, modules]: the running in_channels and the stage's
\* modules so far.
RECURSIVE UnitLoop(_, _, _, _)
UnitLoop(channels_per_stage, j, st, odd_pointwise) ==
    IF j >= Len(channels_per_stage) THEN st
    ELSE LET out_channels == channels_per_stage[j + 1]
             unit == dark_convYxY(st.in_channels, out_channels,
                         UnitIsPointwise(Len(channels_per_stage), j, odd_pointwise))
         IN  UnitLoop(channels_per_stage, j + 1,
                 [in_channels |-> NextInChannels(st.in_channels, out_channels),
                  modules |-> Append(st.modules,
                                     Named("unit" \o ToString(j + 1), unit))],
                 odd_pointwise)

\* The outer loop over the channel table, from stage i (0-based) on.
RECURSIVE StageLoop(_, _, _, _)
StageLoop(channels, i, st, odd_pointwise) ==
    IF i >= Len(channels) THEN st
    ELSE LET units == UnitLoop(channels[i + 1], 0,
                          [in_channels |-> st.in_channels, modules |-> <<>>],
                          odd_pointwise)
             stage == IF StageHasPool(i, Len(channels))
                      THEN Append(units.modules,
                                  Named("pool" \o ToString(i + 1), MaxPool2d(2, 2)))
                      ELSE units.modules
         IN  StageLoop(channels, i + 1,
                 [in_channels |-> units.in_channels,
                  modules |-> Append(st.modules,
                                     Named("stage" \o ToString(i + 1),
                                           Sequential(stage)))],
                 odd_pointwise)

\* self.output: final_conv, the optional final_activ, final_pool.
OutputHead(in_channels, num_classes, cls_activ, avg_pool_size) ==
    << Named("final_conv", Conv2d(in_channels, num_classes, 1, 0, TRUE)) >>
    \o (IF cls_activ THEN << Named("final_activ", LeakyReLU) >> ELSE <<>>)
    \o << Named("final_pool", AvgPool2d(avg_pool_size, 1)) >>

(* ------------------------- DarkNet._init_params ----------------------- *)

\* The name named_modules gives a child: prefix + '.' + name, or the bare
\* name under the root, whose own name is ''.
JoinName(prefix, name) == IF prefix = "" THEN name ELSE prefix \o "." \o name

\* Python's `sub in s` on strings.
StrContains(s, sub) ==
    \E k \in 1..(Len(s) - Len(sub) + 1) : SubSeq(s, k, k + Len(sub) - 1) = sub

\* named_modules(): the module itself, then its children depth-first in
\* insertion order.
RECURSIVE NamedModules(_, _)
RECURSIVE NamedChildren(_, _, _)
NamedModules(prefix, module) ==
    << [name |-> prefix, module |-> module] >>
    \o NamedChildren(prefix, module.children, 1)

NamedChildren(prefix, children, k) ==
    IF k > Len(children) THEN <<>>
    ELSE NamedModules(JoinName(prefix, children[k].name), children[k].module)
         \o NamedChildren(prefix, children, k + 1)

\* Variant: the name compared for equality.
IsFinalConv_mut_exact(name) == name = "final_conv"

\* 'final_conv' in name
IsFinalConv(name) == StrContains(name, "final_conv")

\* What the pass does to one named module: nothing unless it is a Conv2d.
InitOf(nm) ==
    IF nm.module.type = "Conv2d"
    THEN << [name |-> nm.name,
             weight |-> IF IsFinalConv(nm.name) THEN "normal_mean0_std0.01"
                                                ELSE "kaiming_uniform",
             bias |-> IF nm.module.bias THEN "constant_0" ELSE "none"] >>
    ELSE <<>>

RECURSIVE InitLog(_, _)
InitLog(named, k) ==
    IF k > Len(named) THEN <<>> ELSE InitOf(named[k]) \o InitLog(named, k + 1)

\* The initialisations the pass performs, in order.
init_params(root) == InitLog(NamedModules("", root), 1)

\* DarkNet(channels, odd_pointwise, avg_pool_size, cls_activ, in_channels,
\*         num_classes)
DarkNet(channels, odd_pointwise, avg_pool_size, cls_activ, in_channels, num_classes) ==
    LET st == StageLoop(channels, 0,
                  [in_channels |-> in_channels, modules |-> <<>>], odd_pointwise)
        root == [type |-> "DarkNet",
                 children |-> << Named("features", Sequential(st.modules)),
                                 Named("output",
                                       Sequential(OutputHead(st.in_channels,
                                           num_classes, cls_activ, avg_pool_size))) >>]
    IN  [type |-> "DarkNet", children |-> root.children, init |-> init_params(root)]

NoNet == [type |-> "None"]

NoError == [type |-> "", message |-> ""]

NoTensor == [ok |-> FALSE, size |-> <<>>]

(* --------------------------- DarkNet.forward -------------------------- *)

Tensor(size) == [ok |-> TRUE, size |-> size]

\* The exception a layer raises on a shape it cannot take.
ShapeError == [ok |-> FALSE, size |-> <<>>]

\* Output extent of a stride-1, dilation-1 convolution.
ConvOut(h, kernel_size, padding) == h + 2 * padding - (kernel_size - 1)

\* Output extent of a pooling window (ceil_mode off): floor((h - k) / s) + 1.
PoolOut(h, kernel_size, stride) == ((h - kernel_size) \div stride) + 1

\* Variant: ceil_mode on.
MaxPoolOut_mut_ceil(h, kernel_size, stride) ==
    ((h - kernel_size + stride - 1) \div stride) + 1

\* nn.MaxPool2d(kernel_size=2, stride=2) on one spatial extent.
MaxPoolOut(h, kernel_size, stride) == PoolOut(h, kernel_size, stride)

\* Variant: a global pool, one output position however large the input.
AvgPoolOut_mut_global(h, kernel_size, stride) == IF h >= kernel_size THEN 1 ELSE 0

\* nn.AvgPool2d(kernel_size=avg_pool_size, stride=1) on one spatial extent.
AvgPoolOut(h, kernel_size, stride) == PoolOut(h, kernel_size, stride)

Conv2dForward(m, t) ==
    LET h == ConvOut(t.size[3], m.kernel_size, m.padding)
        w == ConvOut(t.size[4], m.kernel_size, m.padding)
    IN  IF t.size[2] = m.in_channels /\ h >= 1 /\ w >= 1
        THEN Tensor(<<t.size[1], m.out_channels, h, w>>)
        ELSE ShapeError

BatchNorm2dForward(m, t) ==
    IF t.size[2] = m.num_features THEN t ELSE ShapeError

MaxPool2dForward(m, t) ==
    LET h == MaxPoolOut(t.size[3], m.kernel_size, m.stride)
        w == MaxPoolOut(t.size[4], m.kernel_size, m.stride)
    IN  IF h >= 1 /\ w >= 1 THEN Tensor(<<t.size[1], t.size[2], h, w>>)
                            ELSE ShapeError

AvgPool2dForward(m, t) ==
    LET h == AvgPoolOut(t.size[3], m.kernel_size, m.stride)
        w == AvgPoolOut(t.size[4], m.kernel_size, m.stride)
    IN  IF h >= 1 /\ w >= 1 THEN Tensor(<<t.size[1], t.size[2], h, w>>)
                            ELSE ShapeError

Child(m, name) ==
    m.children[CHOOSE k \in 1..Len(m.children) : m.children[k].name = name].module

\* Module.__call__ by type.  A Sequential feeds its children in order; a
\* DarkConv applies conv, then bn, then activ; an exception ends the pass.
RECURSIVE ModuleForward(_, _)
RECURSIVE ChildrenForward(_, _, _)
ModuleForward(m, t) ==
    IF ~t.ok THEN t
    ELSE CASE m.type = "Sequential" -> ChildrenForward(m.children, 1, t)
           [] m.type = "DarkConv" ->
                  ModuleForward(Child(m, "activ"),
                      ModuleForward(Child(m, "bn"),
                          ModuleForward(Child(m, "conv"), t)))
           [] m.type = "Conv2d" -> Conv2dForward(m, t)
           [] m.type = "BatchNorm2d" -> BatchNorm2dForward(m, t)
           [] m.type = "LeakyReLU" -> t
           [] m.type = "MaxPool2d" -> MaxPool2dForward(m, t)
           [] m.type = "AvgPool2d" -> AvgPool2dForward(m, t)

ChildrenForward(children, k, t) ==
    IF k > Len(children) THEN t
    ELSE ChildrenForward(children, k + 1, ModuleForward(children[k].module, t))

\* x.view(x.size(0), -1)
View(t) ==
    IF t.ok THEN Tensor(<<t.size[1], t.size[2] * t.size[3] * t.size[4]>>) ELSE t

\* DarkNet.forward
forward(network, t) ==
    View(ModuleForward(Child(network, "output"),
             ModuleForward(Child(network, "features"), t)))

(* ------------------------ parameter enumeration ----------------------- *)

\* Elements of the parameters a module owns itself: a Conv2d its weight
\* (out, in, k, k) and, if it has one, its bias (out); a BatchNorm2d its
\* weight and bias (num_features each).
OwnParameterCount(m) ==
    CASE m.type = "Conv2d" ->
             m.out_channels * m.in_channels * m.kernel_size * m.kernel_size
             + (IF m.bias THEN m.out_channels ELSE 0)
      [] m.type = "BatchNorm2d" -> 2 * m.num_features
      [] OTHER -> 0

RECURSIVE SumParameters(_, _)
SumParameters(named, k) ==
    IF k > Len(named) THEN 0
    ELSE OwnParameterCount(named[k].module) + SumParameters(named, k + 1)

\* weight_count of _test: the elements of every parameter of the network.
weight_count(network) == SumParameters(NamedModules("", network), 1)

(* ----------------------------- get_darknet ---------------------------- *)

Unsupported ==
    [known |-> FALSE, channels |-> <<>>, odd_pointwise |-> FALSE,
     avg_pool_size |-> 0, cls_activ |-> FALSE]

\* The if/elif chain on version.
VersionConfig(version) ==
    CASE version = "ref" ->
             [known |-> TRUE,
              channels |-> << <<16>>, <<32>>, <<64>>, <<128>>, <<256>>, <<512>>,
                              <<1024>> >>,
              odd_pointwise |-> FALSE, avg_pool_size |-> 3, cls_activ |-> TRUE]
      [] version = "tiny" ->
             [known |-> TRUE,
              channels |-> << <<16>>, <<32>>, <<16, 128, 16, 128>>,
                              <<32, 256, 32, 256>>, <<64, 512, 64, 512, 128>> >>,
              odd_pointwise |-> TRUE, avg_pool_size |-> 14, cls_activ |-> FALSE]
      [] version = "19" ->
             [known |-> TRUE,
              channels |-> << <<32>>, <<64>>, <<128, 64, 128>>, <<256, 128, 256>>,
                              <<512, 256, 512, 256, 512>>,
                              <<1024, 512, 1024, 512, 1024>> >>,
              odd_pointwise |-> FALSE, avg_pool_size |-> 7, cls_activ |-> FALSE]
      [] OTHER -> Unsupported

Raise(type, message) ==
    [raised |-> TRUE, error |-> [type |-> type, message |-> message], value |-> NoNet]

Return(value) == [raised |-> FALSE, error |-> NoError, value |-> value]

\* Variant: the pretrained flag ignored.
get_darknet_mut_pretrained(version, pretrained, in_channels, num_classes) ==
    LET cfg == VersionConfig(version)
    IN  IF ~cfg.known
        THEN Raise("ValueError", "Unsupported DarkNet version " \o version)
        ELSE Return(DarkNet(cfg.channels, cfg.odd_pointwise, cfg.avg_pool_size,
                            cfg.cls_activ, in_channels, num_classes))

\* get_darknet(version, pretrained, in_channels=..., num_classes=...)
get_darknet(version, pretrained, in_channels, num_classes) ==
    LET cfg == VersionConfig(version)
    IN  IF ~cfg.known
        THEN Raise("ValueError", "Unsupported DarkNet version " \o version)
        ELSE IF pretrained
        THEN Raise("ValueError", "Pretrained model is not supported")
        ELSE Return(DarkNet(cfg.channels, cfg.odd_pointwise, cfg.avg_pool_size,
                            cfg.cls_activ, in_channels, num_classes))

(* ------------------------------- actions ------------------------------ *)

\* Channel lists of one stage and channel tables, for direct construction.
StageLists == UNION {[1..n -> ChanSet] : n \in 0..MaxUnits}

ChannelTables == UNION {[1..s -> StageLists] : s \in 0..MaxStages}

Init ==
    /\ pc = "idle"
    /\ call = [fn |-> "none"]
    /\ net = NoNet
    /\ err = NoError
    /\ x = NoTensor
    /\ y = NoTensor

\* A call of get_darknet (darknet_ref, darknet_tiny and darknet19 are the
\* calls with their version name); it returns a network or raises.
GetDarknetCall ==
    /\ pc = "idle"
    /\ \E version \in VersionNames, pretrained \in BOOLEAN,
          in_channels \in InChannelsSet, num_classes \in NumClassesSet :
          LET r == get_darknet(version, pretrained, in_channels, num_classes)
          IN  /\ call' = [fn |-> "get_darknet", version |-> version,
                          pretrained |-> pretrained, in_channels |-> in_channels,
                          num_classes |-> num_classes]
              /\ pc' = IF r.raised THEN "raised" ELSE "built"
              /\ net' = r.value
              /\ err' = r.error
    /\ UNCHANGED <<x, y>>

\* A direct call of the DarkNet constructor.
DarkNetCall ==
    /\ pc = "idle"
    /\ \E channels \in ChannelTables, odd_pointwise \in BOOLEAN,
          avg_pool_size \in AvgPoolSet, cls_activ \in BOOLEAN,
          in_channels \in InChannelsSet, num_classes \in DirectNumClasses :
          /\ call' = [fn |-> "DarkNet", channels |-> channels,
                      odd_pointwise |-> odd_pointwise,
                      avg_pool_size |-> avg_pool_size, cls_activ |-> cls_activ,
                      in_channels |-> in_channels, num_classes |-> num_classes]
          /\ net' = DarkNet(channels, odd_pointwise, avg_pool_size, cls_activ,
                            in_channels, num_classes)
    /\ pc' = "built"
    /\ UNCHANGED <<err, x, y>>

\* net(x) on a constructed network.  forward changes nothing of the network,
\* so a second pass reaches only what a first pass reaches: one pass per
\* constructed network is taken.
Forward ==
    /\ pc = "built"
    /\ \E n \in BatchSet, c \in InChannelsSet, h \in InSizes, w \in InSizes :
          /\ x' = Tensor(<<n, c, h, w>>)
          /\ y' = forward(net, x')
    /\ pc' = "done"
    /\ UNCHANGED <<call, net, err>>

\* Construction, through the factory or directly.
Next == GetDarknetCall \/ DarkNetCall

Spec == Init /\ [][Next]_vars

\* The factory and the forward pass, as _test drives them.
NextForward == GetDarknetCall \/ Forward

SpecForward == Init /\ [][NextForward]_vars

(* ------------------- what the claims are stated over ------------------ *)

\* A network has been constructed and returned.
Built == pc \in {"built", "done"}

FromFactory == call.fn = "get_darknet"

SupportedVersions == {"ref", "tiny", "19"}

\* The channel table, alternation flag and pool size the constructor got.
ArgChannels ==
    IF FromFactory THEN VersionConfig(call.version).channels ELSE call.channels

ArgOddPointwise ==
    IF FromFactory THEN VersionConfig(call.version).odd_pointwise
                   ELSE call.odd_pointwise

ArgAvgPoolSize ==
    IF FromFactory THEN VersionConfig(call.version).avg_pool_size
                   ELSE call.avg_pool_size

\* The modules of stage i (1-based) of the constructed network, in order.
StageModules(i) == Child(net, "features").children[i].module.children

\* The convolution of unit p (1-based) of stage i.
UnitConv(i, p) == Child(StageModules(i)[p].module, "conv")

IsPointwiseConv(c) == c.kernel_size = 1 /\ c.padding = 0

IsSpatialConv(c) == c.kernel_size = 3 /\ c.padding = 1

Odd(p) == p % 2 = 1

\* The stages (1-based) whose channel list has one entry, and more than one.
SingleStages == {i \in 1..Len(ArgChannels) : Len(ArgChannels[i]) = 1}

MultiStages == {i \in 1..Len(ArgChannels) : Len(ArgChannels[i]) > 1}

\* The unit positions (stage, position) of the channel table, in order of
\* construction.
RECURSIVE UnitPositions(_, _, _)
UnitPositions(channels, i, p) ==
    IF i > Len(channels) THEN <<>>
    ELSE IF p > Len(channels[i]) THEN UnitPositions(channels, i + 1, 1)
    ELSE << <<i, p>> >> \o UnitPositions(channels, i, p + 1)

Units == UnitPositions(ArgChannels, 1, 1)

HeadConv == Child(Child(net, "output"), "final_conv")

(* ------------------------------- claims ------------------------------- *)

\* C1: built with the default arguments (in_channels 3, num_classes 1000),
\* the network has exactly 7,319,416 parameter elements for 'ref',
\* 1,042,104 for 'tiny' and 20,842,376 for '19'.
C1_ParameterCounts ==
    (Built /\ FromFactory /\ call.in_channels = DefaultInChannels
           /\ call.num_classes = DefaultNumClasses)
    => /\ call.version = "ref" => weight_count(net) = 7319416
       /\ call.version = "tiny" => weight_count(net) = 1042104
       /\ call.version = "19" => weight_count(net) = 20842376

C1_Witness ==
    /\ pc = "built" /\ FromFactory /\ call.version = "19"
    /\ call.in_channels = DefaultInChannels
    /\ call.num_classes = DefaultNumClasses
    /\ weight_count(net) = 20842376

\* The (1, 3, 224, 224) input of _test has gone through a factory network
\* that takes 3 input channels.
TestPass ==
    /\ pc = "done" /\ FromFactory /\ call.in_channels = DefaultInChannels
    /\ x = Tensor(<<1, DefaultInChannels, TestSize, TestSize>>)

\* C2: for each variant a (1, 3, 224, 224) input leaves the feature stages
\* with a spatial extent equal to the variant's avg_pool_size (3 for 'ref',
\* 14 for 'tiny', 7 for '19'), the head's average pool has that kernel size,
\* and forward returns shape (1, num_classes).
C2_TestInputShape ==
    TestPass =>
      LET f == ModuleForward(Child(net, "features"), x)
          k == CASE call.version = "ref" -> 3
                 [] call.version = "tiny" -> 14
                 [] call.version = "19" -> 7
      IN  /\ f.ok /\ f.size[3] = k /\ f.size[4] = k
          /\ Child(Child(net, "output"), "final_pool").kernel_size = k
          /\ Child(Child(net, "output"), "final_pool").stride = 1
          /\ y = Tensor(<<1, call.num_classes>>)

C2_Witness ==
    /\ TestPass /\ call.version = "tiny" /\ call.num_classes = DefaultNumClasses
    /\ y = Tensor(<<1, 1000>>)

\* C3: get_darknet raises ValueError and returns no network whenever the
\* version is not 'ref', 'tiny' or '19' or pretrained is true; it returns a
\* DarkNet exactly when the version is one of the three and pretrained is
\* false.
C3_FactoryErrors ==
    FromFactory =>
      IF call.version \notin SupportedVersions \/ call.pretrained
      THEN pc = "raised" /\ err.type = "ValueError" /\ net = NoNet
      ELSE Built /\ net.type = "DarkNet" /\ err = NoError

C3_Witness ==
    /\ pc = "raised" /\ FromFactory /\ call.version = "ref" /\ call.pretrained
    /\ net = NoNet

\* C4 as claimed: a stage with a one-entry channel list is built with the
\* pointwise (1x1, padding 0) kernel, whatever odd_pointwise is.
C4_SingleUnitPointwise ==
    Built => \A i \in SingleStages : IsPointwiseConv(UnitConv(i, 1))

\* C4 as amended: a stage with a one-entry channel list is built with the
\* spatial (3x3, padding 1) kernel, whatever odd_pointwise is.
C4_SingleUnitSpatial ==
    Built => \A i \in SingleStages : IsSpatialConv(UnitConv(i, 1))

C4_Witness ==
    /\ Built /\ ~FromFactory /\ call.odd_pointwise /\ SingleStages # {}
    /\ \A i \in SingleStages : UnitConv(i, 1).kernel_size = 3

\* C5 as claimed: in a stage of more than one unit, with odd_pointwise false
\* the units at odd positions are pointwise and those at even positions
\* spatial; with odd_pointwise true it is the other way round.
C5_AlternationAsClaimed ==
    Built => \A i \in MultiStages : \A p \in 1..Len(ArgChannels[i]) :
        IF ArgOddPointwise
        THEN IF Odd(p) THEN IsSpatialConv(UnitConv(i, p))
                       ELSE IsPointwiseConv(UnitConv(i, p))
        ELSE IF Odd(p) THEN IsPointwiseConv(UnitConv(i, p))
                       ELSE IsSpatialConv(UnitConv(i, p))

\* C5 as amended: in a stage of more than one unit, with odd_pointwise false
\* unit 1 is spatial (3x3), unit 2 pointwise (1x1), and so on alternating;
\* with odd_pointwise true unit 1 is pointwise, unit 2 spatial, and so on.
C5_Alternation ==
    Built => \A i \in MultiStages : \A p \in 1..Len(ArgChannels[i]) :
        IF ArgOddPointwise
        THEN IF Odd(p) THEN IsPointwiseConv(UnitConv(i, p))
                       ELSE IsSpatialConv(UnitConv(i, p))
        ELSE IF Odd(p) THEN IsSpatialConv(UnitConv(i, p))
                       ELSE IsPointwiseConv(UnitConv(i, p))

C5_Witness ==
    /\ Built /\ ~ArgOddPointwise
    /\ \E i \in MultiStages :
          /\ Len(ArgChannels[i]) >= 3
          /\ UnitConv(i, 1).kernel_size = 3
          /\ UnitConv(i, 2).kernel_size = 1
          /\ UnitConv(i, 3).kernel_size = 3

\* The extent left of h by the max-pools of the stages before the last:
\* one floor halving per pooled stage.
ExtentAfterStages(h) ==
    IF Len(ArgChannels) = 0 THEN h ELSE h \div (2 ^ (Len(ArgChannels) - 1))

\* C6 as claimed: every input the layers accept comes back as a tensor of
\* shape (batch, num_classes), whatever its height and width.
C6_OutputIsNumClasses ==
    (pc = "done" /\ y.ok) => y.size = <<x.size[1], call.num_classes>>

\* C6 as amended: an input (batch, c, H, W) is accepted exactly when c is the
\* network's in_channels and the extents Hf, Wf left by the stage max-pools
\* are at least avg_pool_size k; forward then returns shape
\* (batch, num_classes * (Hf - k + 1) * (Wf - k + 1)), which is
\* (batch, num_classes) exactly when Hf = Wf = k.
C6_OutputShape ==
    pc = "done" =>
      LET hf == ExtentAfterStages(x.size[3])
          wf == ExtentAfterStages(x.size[4])
          k == ArgAvgPoolSize
      IN  /\ y.ok <=> (x.size[2] = call.in_channels /\ hf >= k /\ wf >= k)
          /\ y.ok => /\ y.size = <<x.size[1],
                                   call.num_classes * (hf - k + 1) * (wf - k + 1)>>
                     /\ (y.size = <<x.size[1], call.num_classes>>)
                            <=> (hf = k /\ wf = k)

C6_Witness ==
    /\ pc = "done" /\ FromFactory /\ call.version = "ref"
    /\ call.num_classes = DefaultNumClasses
    /\ x = Tensor(<<1, DefaultInChannels, 256, 256>>)
    /\ y = Tensor(<<1, 4000>>)

\* C7: in a stage of n > 1 units, the unit at 1-based position j is built
\* with the pointwise 1x1 kernel exactly when ((j is odd) XOR odd_pointwise)
\* is false, and with the spatial 3x3 kernel (padding 1) otherwise.
C7_KernelRule ==
    Built => \A i \in MultiStages : \A j \in 1..Len(ArgChannels[i]) :
        LET c == UnitConv(i, j)
        IN  IF (Odd(j) /\ ~ArgOddPointwise) \/ (~Odd(j) /\ ArgOddPointwise)
            THEN IsSpatialConv(c) /\ ~IsPointwiseConv(c)
            ELSE IsPointwiseConv(c) /\ ~IsSpatialConv(c)

C7_Witness ==
    /\ Built /\ ArgOddPointwise
    /\ \E i \in MultiStages :
          /\ IsPointwiseConv(UnitConv(i, 1))
          /\ IsSpatialConv(UnitConv(i, 2))

\* The modules of the feature extractor that are max-pools.
FeaturePools ==
    LET named == NamedModules("features", Child(net, "features"))
    IN  {k \in 1..Len(named) : named[k].module.type = "MaxPool2d"}

\* Heights and widths (h, w) the stages are probed with.
ProbeShapes == {<<1, 2>>, <<2, 5>>, <<5, 4>>}

\* C8: each stage but the last ends with a 2x2 stride-2 max-pool, named after
\* the stage, and holds no other pool; the last stage holds none; so the
\* feature extractor holds S - 1 max-pools for S >= 1 stages.  Every unit
\* keeps the spatial extent, every stage but the last halves it (rounding
\* down) and the last stage keeps it.
C8_StagePooling ==
    Built =>
      LET S == Len(ArgChannels)
      IN  /\ Len(Child(net, "features").children) = S
          /\ S >= 1 => Cardinality(FeaturePools) = S - 1
          /\ \A i \in 1..S :
               LET mods == StageModules(i)
                   n == Len(ArgChannels[i])
               IN  /\ Len(mods) = IF i < S THEN n + 1 ELSE n
                   /\ \A p \in 1..n : mods[p].module.type = "DarkConv"
                   /\ i < S => /\ mods[n + 1].module = MaxPool2d(2, 2)
                               /\ mods[n + 1].name = "pool" \o ToString(i)
                   /\ \A hw \in ProbeShapes :
                        LET h == hw[1]
                            w == hw[2]
                            cin == IF n = 0 THEN 1 ELSE UnitConv(i, 1).in_channels
                            r == ModuleForward(Sequential(mods),
                                               Tensor(<<1, cin, h, w>>))
                        IN  /\ \A p \in 1..n :
                                 LET u == ModuleForward(mods[p].module,
                                              Tensor(<<1, UnitConv(i, p).in_channels,
                                                       h, w>>))
                                 IN  u.ok /\ u.size[3] = h /\ u.size[4] = w
                            /\ IF i < S
                               THEN /\ r.ok <=> (h >= 2 /\ w >= 2)
                                    /\ r.ok => /\ r.size[3] = h \div 2
                                               /\ r.size[4] = w \div 2
                               ELSE r.ok /\ r.size[3] = h /\ r.size[4] = w

C8_Witness ==
    /\ Built /\ ~FromFactory /\ Len(ArgChannels) = 2
    /\ Len(ArgChannels[1]) = 2 /\ Len(ArgChannels[2]) = 1
    /\ StageModules(1)[3].module.type = "MaxPool2d"
    /\ Len(StageModules(2)) = 1

\* C9: the first unit's convolution takes the constructor's in_channels,
\* every later unit's convolution takes as many channels as the unit built
\* just before it puts out (in the same stage or the one before), each unit
\* puts out its entry of the channel table, and the head's convolution takes
\* as many channels as the last unit puts out.
C9_ChannelThreading ==
    Built =>
      /\ \A k \in 1..Len(Units) :
           LET c == UnitConv(Units[k][1], Units[k][2])
           IN  /\ c.out_channels = ArgChannels[Units[k][1]][Units[k][2]]
               /\ c.in_channels =
                     IF k = 1 THEN call.in_channels
                     ELSE UnitConv(Units[k - 1][1], Units[k - 1][2]).out_channels
      /\ Len(Units) > 0 =>
           HeadConv.in_channels =
               ArgChannels[Units[Len(Units)][1]][Units[Len(Units)][2]]

C9_Witness ==
    /\ Built /\ ~FromFactory /\ call.in_channels = DefaultInChannels
    /\ ArgChannels = << <<1, 2>>, <<1>> >>
    /\ UnitConv(1, 1).in_channels = 3
    /\ UnitConv(1, 2).in_channels = 1
    /\ UnitConv(2, 1).in_channels = 2
    /\ HeadConv.in_channels = 1

\* The names named_modules gives the convolutions of the units.
UnitConvNames ==
    {"features.stage" \o ToString(Units[k][1]) \o ".unit" \o ToString(Units[k][2])
        \o ".conv" : k \in 1..Len(Units)}

\* C10: the initialisation pass initialises every convolution exactly once:
\* the head's final convolution, the only module whose name contains
\* 'final_conv', from normal(0, 0.01), every other convolution with Kaiming
\* uniform; the head's convolution is the only one with a bias, and that
\* bias is set to the constant 0.
C10_Initialisation ==
    Built =>
      LET named == NamedModules("", [type |-> "DarkNet", children |-> net.children])
          log == net.init
      IN  /\ {log[k].name : k \in 1..Len(log)}
                = UnitConvNames \cup {"output.final_conv"}
          /\ Len(log) = Len(Units) + 1
          /\ \A k \in 1..Len(named) :
               StrContains(named[k].name, "final_conv")
                   <=> named[k].name = "output.final_conv"
          /\ \A k \in 1..Len(log) :
               IF log[k].name = "output.final_conv"
               THEN log[k].weight = "normal_mean0_std0.01"
                    /\ log[k].bias = "constant_0"
               ELSE log[k].weight = "kaiming_uniform" /\ log[k].bias = "none"
          /\ HeadConv.bias
          /\ \A k \in 1..Len(Units) : ~UnitConv(Units[k][1], Units[k][2]).bias

C10_Witness ==
    /\ Built /\ Len(Units) >= 2
    /\ \E k \in 1..Len(net.init) :
          /\ net.init[k].name = "output.final_conv"
          /\ net.init[k].weight = "normal_mean0_std0.01"
    /\ \E k \in 1..Len(net.init) : net.init[k].weight = "kaiming_uniform"

====
